---- MODULE Spec2Model ----
(***************************************************************************)
(* Block-sparse gemv / outer-product ops of theano/sandbox/blocksparse.py. *)
(*                                                                         *)
(* A tensor is a record [shape, data]: shape is the tuple numpy reports as *)
(* .shape, data maps every 0-based index tuple to an integer.  Buffers     *)
(* live in mem and are named by reference, so that "o.copy()" and writing  *)
(* through o are different things.                                         *)
(***************************************************************************)
EXTENDS Integers, Sequences, FiniteSets, TLC

\* ---------------------------------------------------------------- bounds
MaxBatch == 2
MaxWin == 2
MaxSize == 2
NumBlocks == 2
MaxTerms == 4
MaxNdim == 4

VARIABLES pc, mem, pre, node, call, raised, out, graph

vars == <<pc, mem, pre, node, call, raised, out, graph>>

\* ------------------------------------------------------- tensor helpers
Range(n) == 0 .. (n - 1)

RECURSIVE Pos(_)
Pos(sh) ==
    IF sh = <<>> THEN {<<>>}
    ELSE {<<a>> \o r : a \in Range(Head(sh)), r \in Pos(Tail(sh))}

RECURSIVE SumTo(_, _)
SumTo(f, n) == IF n = 0 THEN 0 ELSE SumTo(f, n - 1) + f[n - 1]

\* An unallocated buffer.
Empty == [shape |-> <<>>, data |-> <<>>]

\* Input values: small integers of both signs that differ from cell to cell.
Gen(seed, salt, k) == ((k * k + (salt + seed) * k + salt * (seed + 1)) % 5) - 2

Tensor2(sh, seed, salt) ==
    [shape |-> sh,
     data |-> [ix \in Pos(sh) |-> Gen(seed, salt, ix[1] * sh[2] + ix[2])]]

Tensor3(sh, seed, salt) ==
    [shape |-> sh,
     data |-> [ix \in Pos(sh) |->
                 Gen(seed, salt, (ix[1] * sh[2] + ix[2]) * sh[3] + ix[3])]]

Tensor4(sh, seed, salt) ==
    [shape |-> sh,
     data |-> [ix \in Pos(sh) |->
                 Gen(seed, salt,
                     ((ix[1] * sh[2] + ix[2]) * sh[3] + ix[3]) * sh[4] + ix[4])]]

\* ------------------------------------------------------------ CPU kernels
\* numpy.dot(h[b, i], w) with w = W[inputIdx, outputIdx]
Dot(h, b, i, W, inputIdx, outputIdx) ==
    [t \in Range(W.shape[4]) |->
        SumTo([s \in Range(h.shape[3]) |->
                 h.data[<<b, i, s>>] * W.data[<<inputIdx, outputIdx, s, t>>]],
              h.shape[3])]

\* the loop body with "=" for "+=": the last term alone is kept
GemvStep_Assign(o, a, b, j, i) ==
    LET outputIdx == a.oIdx.data[<<b, j>>]
        inputIdx == a.iIdx.data[<<b, i>>]
        d == Dot(a.h, b, i, a.W, inputIdx, outputIdx)
    IN [o EXCEPT !.data =
          [ix \in DOMAIN o.data |->
             IF ix[1] = b /\ ix[2] = j THEN d[ix[3]] ELSE o.data[ix]]]

\* body of the innermost loop: o[b, j, :] += numpy.dot(h[b, i], w)
GemvStep(o, a, b, j, i) ==
    LET outputIdx == a.oIdx.data[<<b, j>>]
        inputIdx == a.iIdx.data[<<b, i>>]
        d == Dot(a.h, b, i, a.W, inputIdx, outputIdx)
    IN [o EXCEPT !.data =
          [ix \in DOMAIN o.data |->
             IF ix[1] = b /\ ix[2] = j THEN o.data[ix] + d[ix[3]]
             ELSE o.data[ix]]]

RECURSIVE GemvLoopI(_, _, _, _, _)
GemvLoopI(o, a, b, j, i) ==
    IF i >= a.h.shape[2] THEN o
    ELSE GemvLoopI(GemvStep(o, a, b, j, i), a, b, j, i + 1)

RECURSIVE GemvLoopJ(_, _, _, _)
GemvLoopJ(o, a, b, j) ==
    IF j >= o.shape[2] THEN o
    ELSE GemvLoopJ(GemvLoopI(o, a, b, j, 0), a, b, j + 1)

RECURSIVE GemvLoopB(_, _, _)
GemvLoopB(o, a, b) ==
    IF b >= o.shape[1] THEN o
    ELSE GemvLoopB(GemvLoopJ(o, a, b, 0), a, b + 1)

\* the three nested loops of CpuSparseBlockGemv.perform, run on the buffer o
GemvKernel(o, W, h, iIdx, oIdx) ==
    GemvLoopB(o, [W |-> W, h |-> h, iIdx |-> iIdx, oIdx |-> oIdx], 0)

\* the loop body as a scatter-write ("=" for "+="): a block that is hit holds
\* the last outer product sent to it
OuterStep_Write(o, a, b, i, j) ==
    LET p == a.xIdx.data[<<b, i>>]
        q == a.yIdx.data[<<b, j>>]
    IN [o EXCEPT !.data =
          [ix \in DOMAIN o.data |->
             IF ix[1] = p /\ ix[2] = q
             THEN a.x.data[<<b, i, ix[3]>>] * a.y.data[<<b, j, ix[4]>>]
             ELSE o.data[ix]]]

\* o[xIdx[b, i], yIdx[b, j]] += numpy.outer(x[b, i], y[b, j, :])
OuterStep(o, a, b, i, j) ==
    LET p == a.xIdx.data[<<b, i>>]
        q == a.yIdx.data[<<b, j>>]
    IN [o EXCEPT !.data =
          [ix \in DOMAIN o.data |->
             IF ix[1] = p /\ ix[2] = q
             THEN o.data[ix] + a.x.data[<<b, i, ix[3]>>] * a.y.data[<<b, j, ix[4]>>]
             ELSE o.data[ix]]]

RECURSIVE OuterLoopJ(_, _, _, _, _)
OuterLoopJ(o, a, b, i, j) ==
    IF j >= a.yIdx.shape[2] THEN o
    ELSE OuterLoopJ(OuterStep(o, a, b, i, j), a, b, i, j + 1)

RECURSIVE OuterLoopI(_, _, _, _)
OuterLoopI(o, a, b, i) ==
    IF i >= a.xIdx.shape[2] THEN o
    ELSE OuterLoopI(OuterLoopJ(o, a, b, i, 0), a, b, i + 1)

RECURSIVE OuterLoopB(_, _, _)
OuterLoopB(o, a, b) ==
    IF b >= a.x.shape[1] THEN o
    ELSE OuterLoopB(OuterLoopI(o, a, b, 0), a, b + 1)

\* the three nested loops of CpuSparseBlockOuter.perform; alpha is unpacked
\* from inp and not used by the loop body
OuterKernel(o, x, y, xIdx, yIdx, alpha) ==
    OuterLoopB(o, [x |-> x, y |-> y, xIdx |-> xIdx, yIdx |-> yIdx], 0)


\* ------------------------------------------------- symbolic variables
\* A symbolic variable or expression: what make_node sees is its type
\* (ndim, dtype); what perform sees is the value it evaluates to.
NoOp == [cls |-> "none", inplace |-> FALSE]

Var(name, ndim, dtype) ==
    [fn |-> "var", name |-> name, ndim |-> ndim, dtype |-> dtype,
     args |-> <<>>, pattern |-> <<>>, value |-> 0, op |-> NoOp]

\* tensor.constant(numpy.asarray(v, dtype='float32'))
Constant(v) ==
    [fn |-> "const", name |-> "", ndim |-> 0, dtype |-> "float32",
     args |-> <<>>, pattern |-> <<>>, value |-> v, op |-> NoOp]

\* e.zeros_like()
ZerosLike(e) ==
    [fn |-> "zeros_like", name |-> "", ndim |-> e.ndim, dtype |-> e.dtype,
     args |-> <<e>>, pattern |-> <<>>, value |-> 0, op |-> NoOp]

\* e.dimshuffle(pattern); an entry of pattern is an axis of e or "x"
DimShuffle(e, pattern) ==
    [fn |-> "dimshuffle", name |-> "", ndim |-> Len(pattern), dtype |-> e.dtype,
     args |-> <<e>>, pattern |-> pattern, value |-> 0, op |-> NoOp]

\* e.take(idx, axis=0)
Take(e, idx) ==
    [fn |-> "take", name |-> "", ndim |-> idx.ndim + e.ndim - 1, dtype |-> e.dtype,
     args |-> <<e, idx>>, pattern |-> <<>>, value |-> 0, op |-> NoOp]

\* grad_undefined(op, x_pos, x, comment)
GradUndefined(e) ==
    [fn |-> "grad_undefined", name |-> "", ndim |-> e.ndim, dtype |-> e.dtype,
     args |-> <<e>>, pattern |-> <<>>, value |-> 0, op |-> NoOp]

\* the output variable of Apply(op, inputs, [output])
OutputOf(nd) ==
    [fn |-> "apply", name |-> "", ndim |-> nd.otype.ndim, dtype |-> nd.otype.dtype,
     args |-> nd.inputs, pattern |-> <<>>, value |-> 0, op |-> nd.op]

NoNode == [op |-> NoOp, inputs |-> <<>>, otype |-> [ndim |-> 0, dtype |-> ""]]

NoError == [exc |-> "none", text |-> ""]

Raise(exc, text) == [node |-> NoNode, raised |-> [exc |-> exc, text |-> text]]

\* Apply(self, inputs, [output]) with output of o's type class and dtype and
\* broadcastable=(False,) * o.ndim
Apply(cls, inplace, inputs) ==
    [node |-> [op |-> [cls |-> cls, inplace |-> inplace],
               inputs |-> inputs,
               otype |-> [ndim |-> inputs[1].ndim, dtype |-> inputs[1].dtype]],
     raised |-> NoError]

\* theano.tensor.discrete_dtypes
discrete_dtypes ==
    {"int8", "int16", "int32", "int64", "uint8", "uint16", "uint32", "uint64"}

\* make_node without its check of W.ndim
SparseBlockGemv_make_node_NoWCheck(cls, inplace, a) ==
    IF a[1].ndim # 3
    THEN Raise("TypeError", "The output o must be a 2D tensor")
    ELSE IF a[3].ndim # 3
    THEN Raise("TypeError", "The input h must be a 3D tensor")
    ELSE IF a[4].ndim # 2
    THEN Raise("TypeError", "The input indices inputIdx must be a 2D tensor")
    ELSE IF a[5].ndim # 2
    THEN Raise("TypeError", "The output indices outputIdx must be a 2D tensor")
    ELSE IF a[4].dtype \notin discrete_dtypes
    THEN Raise("AssertionError", "")
    ELSE IF a[5].dtype \notin discrete_dtypes
    THEN Raise("AssertionError", "")
    ELSE Apply(cls, inplace, a)

\* SparseBlockGemv.make_node(o, W, h, inputIdx, outputIdx), a = the five arguments
SparseBlockGemv_make_node(cls, inplace, a) ==
    IF a[1].ndim # 3
    THEN Raise("TypeError", "The output o must be a 2D tensor")
    ELSE IF a[2].ndim # 4
    THEN Raise("TypeError", "The weight matrix W must be a 4D tensor")
    ELSE IF a[3].ndim # 3
    THEN Raise("TypeError", "The input h must be a 3D tensor")
    ELSE IF a[4].ndim # 2
    THEN Raise("TypeError", "The input indices inputIdx must be a 2D tensor")
    ELSE IF a[5].ndim # 2
    THEN Raise("TypeError", "The output indices outputIdx must be a 2D tensor")
    ELSE IF a[4].dtype \notin discrete_dtypes
    THEN Raise("AssertionError", "")
    ELSE IF a[5].dtype \notin discrete_dtypes
    THEN Raise("AssertionError", "")
    ELSE Apply(cls, inplace, a)

\* SparseBlockOuter.make_node(o, x, y, xIdx, yIdx, alpha=None); a = the five
\* tensor arguments, alpha = <<>> for None or <<the variable given>>
SparseBlockOuter_make_node(cls, inplace, a, alpha) ==
    LET one == Constant(1)
    IN Apply(cls, inplace, a \o (IF alpha = <<>> THEN <<one>> ELSE alpha))


\* ------------------------------------------------------ class hierarchy
GemvClasses == {"SparseBlockGemv", "CpuSparseBlockGemv"}

OuterClasses == {"SparseBlockOuter", "CpuSparseBlockOuter"}

\* class CpuSparseBlockGemv(SparseBlockGemv), class CpuSparseBlockOuter(SparseBlockOuter)
BaseOf(cls) ==
    CASE cls = "CpuSparseBlockGemv" -> "SparseBlockGemv"
      [] cls = "CpuSparseBlockOuter" -> "SparseBlockOuter"
      [] OTHER -> "Op"

\* the methods each class body defines
Defines(cls) ==
    CASE cls = "SparseBlockGemv" -> {"make_node", "perform", "grad"}
      [] cls = "SparseBlockOuter" -> {"make_node", "perform", "grad"}
      [] cls = "CpuSparseBlockGemv" -> {"perform"}
      [] cls = "CpuSparseBlockOuter" -> {"perform"}
      [] OTHER -> {}

\* the class whose body supplies method m to an instance of cls
Resolve(cls, m) == IF m \in Defines(cls) THEN cls ELSE BaseOf(cls)

\* ------------------------------------------- values of symbolic expressions
\* position in .shape of the axis a dimshuffle pattern entry names
AxisNo(s) ==
    CASE s = "0" -> 1 [] s = "1" -> 2 [] s = "2" -> 3 [] s = "3" -> 4

\* value of v.dimshuffle(pattern)
DimShuffleValue(v, pattern) ==
    LET sh == [k \in 1 .. Len(pattern) |->
                 IF pattern[k] = "x" THEN 1 ELSE v.shape[AxisNo(pattern[k])]]
        From(ix) == [a \in 1 .. Len(v.shape) |->
                       ix[CHOOSE k \in 1 .. Len(pattern) :
                            pattern[k] # "x" /\ AxisNo(pattern[k]) = a]]
    IN [shape |-> sh, data |-> [ix \in Pos(sh) |-> v.data[From(ix)]]]

\* value of v.take(idx, axis=0)
TakeValue(v, idx) ==
    LET n == Len(idx.shape)
        sh == idx.shape \o Tail(v.shape)
    IN [shape |-> sh,
        data |-> [ix \in Pos(sh) |->
                    v.data[<<idx.data[SubSeq(ix, 1, n)]>> \o SubSeq(ix, n + 1, Len(ix))]]]

\* value of v.zeros_like()
ZerosLikeValue(v) == [shape |-> v.shape, data |-> [ix \in DOMAIN v.data |-> 0]]

RECURSIVE Eval(_, _)
Eval(e, m) ==
    CASE e.fn = "var" -> m[e.name]
      [] e.fn = "const" -> [shape |-> <<>>, data |-> [ix \in {<<>>} |-> e.value]]
      [] e.fn = "zeros_like" -> ZerosLikeValue(Eval(e.args[1], m))
      [] e.fn = "dimshuffle" -> DimShuffleValue(Eval(e.args[1], m), e.pattern)
      [] e.fn = "take" -> TakeValue(Eval(e.args[1], m), Eval(e.args[2], m))
      [] e.fn = "apply" /\ e.op.cls = "CpuSparseBlockGemv" ->
            GemvKernel(Eval(e.args[1], m), Eval(e.args[2], m), Eval(e.args[3], m),
                       Eval(e.args[4], m), Eval(e.args[5], m))
      [] e.fn = "apply" /\ e.op.cls = "CpuSparseBlockOuter" ->
            OuterKernel(Eval(e.args[1], m), Eval(e.args[2], m), Eval(e.args[3], m),
                        Eval(e.args[4], m), Eval(e.args[5], m), Eval(e.args[6], m))

\* ------------------------------------------------------------- gradient
NoGraph == [raised |-> NoError, value |-> <<>>]

\* grad with the index tensors of the h-gradient not swapped
SparseBlockGemv_grad_NoSwap(self, inputs, grads) ==
    LET W == inputs[2]
        h == inputs[3]
        inputIdx == inputs[4]
        outputIdx == inputs[5]
        go == grads[1]
        Wgrad == SparseBlockOuter_make_node("SparseBlockOuter", self.inplace,
                     <<ZerosLike(W), h, go, inputIdx, outputIdx>>, <<>>)
        hgrad == SparseBlockGemv_make_node("SparseBlockGemv", self.inplace,
                     <<ZerosLike(h), DimShuffle(W, <<"1", "0", "3", "2">>),
                       go, inputIdx, outputIdx>>)
    IN [raised |-> NoError,
        value |-> <<go, OutputOf(Wgrad.node), OutputOf(hgrad.node),
                    GradUndefined(inputIdx), GradUndefined(outputIdx)>>]

\* SparseBlockGemv.grad(self, inputs, grads)
SparseBlockGemv_grad(self, inputs, grads) ==
    LET o == inputs[1]
        W == inputs[2]
        h == inputs[3]
        inputIdx == inputs[4]
        outputIdx == inputs[5]
        go == grads[1]
        Wgrad == SparseBlockOuter_make_node("SparseBlockOuter", self.inplace,
                     <<ZerosLike(W), h, go, inputIdx, outputIdx>>, <<>>)
        hgrad == SparseBlockGemv_make_node("SparseBlockGemv", self.inplace,
                     <<ZerosLike(h), DimShuffle(W, <<"1", "0", "3", "2">>),
                       go, outputIdx, inputIdx>>)
    IN IF Wgrad.raised # NoError THEN [raised |-> Wgrad.raised, value |-> <<>>]
       ELSE IF hgrad.raised # NoError THEN [raised |-> hgrad.raised, value |-> <<>>]
       ELSE [raised |-> NoError,
             value |-> <<go, OutputOf(Wgrad.node), OutputOf(hgrad.node),
                         GradUndefined(inputIdx), GradUndefined(outputIdx)>>]

\* a grad that answers with zeros instead of raising
SparseBlockOuter_grad_Zeros(self, inputs, output_gradients) ==
    [raised |-> NoError, value |-> <<ZerosLike(inputs[1])>>]

\* SparseBlockOuter.grad(self, inputs, output_gradients)
SparseBlockOuter_grad(self, inputs, output_gradients) ==
    [raised |-> [exc |-> "NotImplementedError",
                 text |-> "SparseBlockOuter has no gradient implemented"],
     value |-> <<>>]

\* ----------------------------------------------------- sparse_block_dot
\* sparse_block_dot that adds into zeros instead of the gathered bias rows
sparse_block_dot_NoBias(W, h, inputIdx, b, outputIdx, inplace) ==
    IF ~(inputIdx.ndim = h.ndim - 1) THEN Raise("AssertionError", "")
    ELSE IF ~(outputIdx.ndim = inputIdx.ndim) THEN Raise("AssertionError", "")
    ELSE LET h_ == IF h.ndim = 2 THEN DimShuffle(h, <<"x", "0", "1">>) ELSE h
             inputIdx_ == IF h.ndim = 2 THEN DimShuffle(inputIdx, <<"x", "0">>)
                          ELSE inputIdx
             outputIdx_ == IF h.ndim = 2 THEN DimShuffle(outputIdx, <<"x", "0">>)
                           ELSE outputIdx
         IN SparseBlockGemv_make_node("SparseBlockGemv", inplace,
                <<ZerosLike(Take(b, outputIdx_)), W, h_, inputIdx_, outputIdx_>>)

sparse_block_dot(W, h, inputIdx, b, outputIdx, inplace) ==
    IF ~(inputIdx.ndim = h.ndim - 1) THEN Raise("AssertionError", "")
    ELSE IF ~(outputIdx.ndim = inputIdx.ndim) THEN Raise("AssertionError", "")
    ELSE LET h_ == IF h.ndim = 2 THEN DimShuffle(h, <<"x", "0", "1">>) ELSE h
             inputIdx_ == IF h.ndim = 2 THEN DimShuffle(inputIdx, <<"x", "0">>)
                          ELSE inputIdx
             outputIdx_ == IF h.ndim = 2 THEN DimShuffle(outputIdx, <<"x", "0">>)
                           ELSE outputIdx
         IN SparseBlockGemv_make_node("SparseBlockGemv", inplace,
                <<Take(b, outputIdx_), W, h_, inputIdx_, outputIdx_>>)


\* ------------------------------------------------------ caller's buffers
\* (batch, iWin, oWin) of make_node's docstring
Windows ==
    {s \in (1 .. MaxBatch) \X (1 .. MaxWin) \X (1 .. MaxWin) :
        s[1] * s[2] * s[3] <= MaxTerms}

\* The block sizes and the cell values of a call are drawn as a function of
\* its index tensors: every pair of sizes up to MaxSize and many values
\* occur, one of them with each choice of the windows and their indices.
Weight(idx, sh) ==
    SumTo([k \in Range(sh[1] * sh[2]) |->
             (k + 1) * idx[<<k \div sh[2], k % sh[2]>>]],
          sh[1] * sh[2])

Drawn(s, iIdx, oIdx) ==
    LET wI == Weight(iIdx, <<s[1], s[2]>>)
        wO == Weight(oIdx, <<s[1], s[3]>>)
    IN [iSize |-> 1 + ((wI + s[3]) % MaxSize),
        oSize |-> 1 + ((wO + (wI \div MaxSize) + s[1]) % MaxSize),
        seed |-> wI + 2 * wO + s[2]]

\* first example of a batched tensor, without the batch axis
Example0(v) ==
    [shape |-> Tail(v.shape),
     data |-> [ix \in Pos(Tail(v.shape)) |-> v.data[<<0>> \o ix]]]

Memory(s, iSize, oSize, seed, iIdx, oIdx) ==
    LET batch == s[1]
        iWin == s[2]
        oWin == s[3]
        h == Tensor3(<<batch, iWin, iSize>>, seed, 3)
        inputIdx == [shape |-> <<batch, iWin>>, data |-> iIdx]
        outputIdx == [shape |-> <<batch, oWin>>, data |-> oIdx]
    IN [o |-> Tensor3(<<batch, oWin, oSize>>, seed, 1),
        W |-> Tensor4(<<NumBlocks, NumBlocks, iSize, oSize>>, seed, 2),
        h |-> h,
        inputIdx |-> inputIdx,
        outputIdx |-> outputIdx,
        go |-> Tensor3(<<batch, oWin, oSize>>, seed, 4),
        acc |-> Tensor4(<<NumBlocks, NumBlocks, iSize, oSize>>, seed, 5),
        b |-> Tensor2(<<NumBlocks, oSize>>, seed, 6),
        h2 |-> Example0(h),
        inputIdx1 |-> Example0(inputIdx),
        outputIdx1 |-> Example0(outputIdx),
        copy |-> Empty,
        tmp |-> Empty]

\* the symbolic variables the caller declares for its buffers
EnvVar(name) ==
    CASE name \in {"o", "h", "go"} -> Var(name, 3, "float32")
      [] name \in {"W", "acc"} -> Var(name, 4, "float32")
      [] name \in {"b", "h2"} -> Var(name, 2, "float32")
      [] name \in {"inputIdx", "outputIdx"} -> Var(name, 2, "int64")
      [] name \in {"inputIdx1", "outputIdx1"} -> Var(name, 1, "int64")

GemvArgs == <<EnvVar("o"), EnvVar("W"), EnvVar("h"), EnvVar("inputIdx"), EnvVar("outputIdx")>>

OuterArgs == <<EnvVar("acc"), EnvVar("h"), EnvVar("go"), EnvVar("inputIdx"), EnvVar("outputIdx")>>

AlphaArgs == {<<>>, <<Constant(2)>>}

IdxDtypes == {"int64", "uint8", "float32"}

\* arguments of ranks n[1..5], index arguments of dtypes d[1..2]
GemvArgsOf(n, d) ==
    <<Var("o", n[1], "float32"), Var("W", n[2], "float32"), Var("h", n[3], "float32"),
      Var("inputIdx", n[4], d[1]), Var("outputIdx", n[5], d[2])>>

OuterArgsOf(d) ==
    <<EnvVar("acc"), EnvVar("h"), EnvVar("go"),
      Var("inputIdx", 2, d[1]), Var("outputIdx", 2, d[2])>>

NoCall == [fn |-> "none", op |-> NoOp, args |-> <<>>]

Start(m) ==
    /\ mem = m
    /\ pre = m
    /\ pc = "ready"
    /\ node = NoNode
    /\ call = NoCall
    /\ raised = NoError
    /\ out = "none"
    /\ graph = NoGraph

Init ==
    \E s \in Windows :
        \E iIdx \in [Pos(<<s[1], s[2]>>) -> Range(NumBlocks)],
           oIdx \in [Pos(<<s[1], s[3]>>) -> Range(NumBlocks)] :
            LET d == Drawn(s, iIdx, oIdx)
            IN Start(Memory(s, d.iSize, d.oSize, d.seed, iIdx, oIdx))

\* one example, one block in each window, blocks of one element
InitNode ==
    Start(Memory(<<1, 1, 1>>, 1, 1, 0,
                 [ix \in Pos(<<1, 1>>) |-> 0], [ix \in Pos(<<1, 1>>) |-> 0]))

\* ------------------------------------------------------------- actions
\* pc: "ready" before the call, "built" with the node it returned, "failed"
\* when it raised, "performed" after perform and "graded" after grad
Returned(r, fn, cls, inplace, args) ==
    /\ node' = r.node
    /\ raised' = r.raised
    /\ pc' = IF r.raised = NoError THEN "built" ELSE "failed"
    /\ call' = [fn |-> fn, op |-> [cls |-> cls, inplace |-> inplace], args |-> args]
    /\ UNCHANGED <<mem, pre, out, graph>>

\* op(o, W, h, inputIdx, outputIdx) for an instance op of a gemv class
MakeNodeGemv(cls, inplace, a) ==
    /\ pc = "ready"
    /\ Resolve(cls, "make_node") = "SparseBlockGemv"
    /\ Returned(SparseBlockGemv_make_node(cls, inplace, a),
                "SparseBlockGemv.make_node", cls, inplace, a)

\* op(o, x, y, xIdx, yIdx, alpha) for an instance op of an outer class
MakeNodeOuter(cls, inplace, a, alpha) ==
    /\ pc = "ready"
    /\ Resolve(cls, "make_node") = "SparseBlockOuter"
    /\ Returned(SparseBlockOuter_make_node(cls, inplace, a, alpha),
                "SparseBlockOuter.make_node", cls, inplace, a \o alpha)

\* sparse_block_dot on the batched buffers or on the first example alone
SparseBlockDot(h, inputIdx, outputIdx, inplace) ==
    /\ pc = "ready"
    /\ Returned(sparse_block_dot(EnvVar("W"), h, inputIdx, EnvVar("b"), outputIdx, inplace),
                "sparse_block_dot", "SparseBlockGemv", inplace,
                <<EnvVar("W"), h, inputIdx, EnvVar("b"), outputIdx>>)

\* the graph optimizer replaces a generic op by its CPU implementation
CpuClassOf(cls) ==
    CASE cls = "SparseBlockGemv" -> "CpuSparseBlockGemv"
      [] cls = "SparseBlockOuter" -> "CpuSparseBlockOuter"
      [] OTHER -> cls

Optimize ==
    /\ pc = "built"
    /\ CpuClassOf(node.op.cls) # node.op.cls
    /\ node' = [node EXCEPT !.op.cls = CpuClassOf(node.op.cls)]
    /\ UNCHANGED <<pc, mem, pre, call, raised, out, graph>>

\* the inputs have the ranks and dtypes the kernels are documented for
WellTyped(nd) ==
    /\ nd.op.cls \in GemvClasses =>
          /\ [k \in 1 .. 5 |-> nd.inputs[k].ndim] = <<3, 4, 3, 2, 2>>
    /\ nd.op.cls \in OuterClasses =>
          /\ [k \in 1 .. 6 |-> nd.inputs[k].ndim] = <<4, 3, 3, 2, 2, 0>>
    /\ nd.inputs[4].dtype \in discrete_dtypes
    /\ nd.inputs[5].dtype \in discrete_dtypes

\* SparseBlockGemv.perform and SparseBlockOuter.perform
GenericPerform(text) ==
    /\ raised' = [exc |-> "NotImplementedError", text |-> text]
    /\ pc' = "performed"
    /\ pre' = mem
    /\ UNCHANGED <<mem, node, call, out, graph>>

SparseBlockGemv_perform ==
    /\ pc = "built"
    /\ Resolve(node.op.cls, "perform") = "SparseBlockGemv"
    /\ GenericPerform("Optimization of SparseBlockGemv failed.")

SparseBlockOuter_perform ==
    /\ pc = "built"
    /\ Resolve(node.op.cls, "perform") = "SparseBlockOuter"
    /\ GenericPerform("Optimization of SparseBlockOuter failed.")

\* the buffer that holds the value of input 0 when perform is entered
InputBuffer(e) == IF e.fn = "var" THEN e.name ELSE "tmp"

\* memory when perform is entered: a computed input 0 sits in a temporary
Entered(m, e) == IF e.fn = "var" THEN m ELSE [m EXCEPT !.tmp = Eval(e, m)]

\* the copy is made and the name o is not rebound to it
LocalO_NotRebound(inplace, src) == src

\* "if not self.inplace: o = o.copy()": the buffer the local name o refers to
\* from there on, and the memory after the statement
LocalO(inplace, src) == IF ~inplace THEN "copy" ELSE src

AfterCopy(inplace, m, src) == IF ~inplace THEN [m EXCEPT !.copy = m[src]] ELSE m

CpuSparseBlockGemv_perform ==
    /\ pc = "built"
    /\ Resolve(node.op.cls, "perform") = "CpuSparseBlockGemv"
    /\ WellTyped(node)
    /\ LET inp == node.inputs
           src == InputBuffer(inp[1])
           m0 == Entered(mem, inp[1])
           o == LocalO(node.op.inplace, src)
           m1 == AfterCopy(node.op.inplace, m0, src)
           res == GemvKernel(m1[o], Eval(inp[2], m1), Eval(inp[3], m1),
                             Eval(inp[4], m1), Eval(inp[5], m1))
       IN /\ mem' = [m1 EXCEPT ![o] = res]
          /\ out' = o
    /\ pre' = mem
    /\ pc' = "performed"
    /\ UNCHANGED <<node, call, raised, graph>>

CpuSparseBlockOuter_perform ==
    /\ pc = "built"
    /\ Resolve(node.op.cls, "perform") = "CpuSparseBlockOuter"
    /\ WellTyped(node)
    /\ LET inp == node.inputs
           src == InputBuffer(inp[1])
           m0 == Entered(mem, inp[1])
           o == LocalO(node.op.inplace, src)
           m1 == AfterCopy(node.op.inplace, m0, src)
           res == OuterKernel(m1[o], Eval(inp[2], m1), Eval(inp[3], m1),
                              Eval(inp[4], m1), Eval(inp[5], m1), Eval(inp[6], m1))
       IN /\ mem' = [m1 EXCEPT ![o] = res]
          /\ out' = o
    /\ pre' = mem
    /\ pc' = "performed"
    /\ UNCHANGED <<node, call, raised, graph>>

\* theano.grad asks the op of a built node for its gradient, go the gradient
\* flowing into the node's output
Grad ==
    /\ pc = "built"
    /\ LET g == IF Resolve(node.op.cls, "grad") = "SparseBlockGemv"
                THEN SparseBlockGemv_grad(node.op, node.inputs, <<EnvVar("go")>>)
                ELSE SparseBlockOuter_grad(node.op, node.inputs, <<EnvVar("acc")>>)
       IN /\ graph' = g
          /\ raised' = g.raised
    /\ pc' = "graded"
    /\ UNCHANGED <<mem, pre, node, call, out>>

Next ==
    \/ \E cls \in GemvClasses, inplace \in BOOLEAN : MakeNodeGemv(cls, inplace, GemvArgs)
    \/ \E cls \in OuterClasses, inplace \in BOOLEAN, alpha \in AlphaArgs :
          MakeNodeOuter(cls, inplace, OuterArgs, alpha)
    \/ \E h \in {EnvVar("h"), EnvVar("h2")},
          inputIdx \in {EnvVar("inputIdx"), EnvVar("inputIdx1")},
          outputIdx \in {EnvVar("outputIdx"), EnvVar("outputIdx1")},
          inplace \in BOOLEAN : SparseBlockDot(h, inputIdx, outputIdx, inplace)
    \/ Optimize
    \/ SparseBlockGemv_perform
    \/ SparseBlockOuter_perform
    \/ CpuSparseBlockGemv_perform
    \/ CpuSparseBlockOuter_perform
    \/ Grad

Spec == Init /\ [][Next]_vars

\* make_node called with arguments of any rank and index dtype
MakeNodeGemvAny ==
    /\ pc = "ready"
    /\ \E cls \in GemvClasses, inplace \in BOOLEAN :
          \E n \in [1 .. 5 -> 1 .. MaxNdim], d \in [1 .. 2 -> IdxDtypes] :
              MakeNodeGemv(cls, inplace, GemvArgsOf(n, d))

MakeNodeOuterAny ==
    /\ pc = "ready"
    /\ \E cls \in OuterClasses, inplace \in BOOLEAN, alpha \in AlphaArgs :
          \E d \in [1 .. 2 -> IdxDtypes] :
              MakeNodeOuter(cls, inplace, OuterArgsOf(d), alpha)

NextNode ==
    \/ MakeNodeGemvAny
    \/ MakeNodeOuterAny
    \/ SparseBlockGemv_perform
    \/ SparseBlockOuter_perform
    \/ CpuSparseBlockGemv_perform
    \/ CpuSparseBlockOuter_perform

SpecNode == InitNode /\ [][NextNode]_vars

\* the gradient of a gemv node
NextGrad ==
    \/ \E cls \in GemvClasses, inplace \in BOOLEAN : MakeNodeGemv(cls, inplace, GemvArgs)
    \/ Grad

SpecGrad == Init /\ [][NextGrad]_vars


\* ============================================================== claims
\* value of the k-th input when perform was entered
In(k) == Eval(node.inputs[k], pre)

GemvPerformed == pc = "performed" /\ node.op.cls = "CpuSparseBlockGemv"

OuterPerformed == pc = "performed" /\ node.op.cls = "CpuSparseBlockOuter"

RECURSIVE SumSet(_, _)
SumSet(f, S) ==
    IF S = {} THEN 0
    ELSE LET x == CHOOSE x \in S : TRUE IN f[x] + SumSet(f, S \ {x})

\* h[b, i, :] . W[inputIdx[b, i], outputIdx[b, j], :, t]
Term(W, h, iIdx, oIdx, b, j, i, t) ==
    SumTo([s \in Range(h.shape[3]) |->
             h.data[<<b, i, s>>]
               * W.data[<<iIdx.data[<<b, i>>], oIdx.data[<<b, j>>], s, t>>]],
          h.shape[3])

\* o[b, j, t] + sum over i of dot(h[b, i, :], W[inputIdx[b, i], outputIdx[b, j]])[t]
BlockGemvSum(o, W, h, iIdx, oIdx, ix) ==
    o.data[ix]
      + SumTo([i \in Range(h.shape[2]) |-> Term(W, h, iIdx, oIdx, ix[1], ix[2], i, ix[3])],
              h.shape[2])

BlockGemvValue(o, W, h, iIdx, oIdx) ==
    [shape |-> o.shape,
     data |-> [ix \in Pos(o.shape) |-> BlockGemvSum(o, W, h, iIdx, oIdx, ix)]]

\* C1: CpuSparseBlockGemv.perform returns, in the shape of o,
\* result[b, j, :] = o[b, j, :] + sum_i dot(h[b, i, :], W[inputIdx[b, i], outputIdx[b, j]]),
\* one term for every input-window position i, repeated index values included.
C1_GemvResult ==
    GemvPerformed =>
        /\ mem[out].shape = In(1).shape
        /\ DOMAIN mem[out].data = Pos(In(1).shape)
        /\ \A ix \in Pos(In(1).shape) :
              mem[out].data[ix] = BlockGemvSum(In(1), In(2), In(3), In(4), In(5), ix)

\* a run of the kernel where inputIdx[0, :] repeats a block and both terms count
C1_Witness ==
    /\ GemvPerformed
    /\ In(3).shape[2] >= 2
    /\ In(4).data[<<0, 0>>] = In(4).data[<<0, 1>>]
    /\ \E t \in Range(In(1).shape[3]) :
          /\ Term(In(2), In(3), In(4), In(5), 0, 0, 0, t) # 0
          /\ Term(In(2), In(3), In(4), In(5), 0, 0, 1, t) # 0
          /\ mem[out].data[<<0, 0, t>>] # In(1).data[<<0, 0, t>>]

\* the (b, i, j) whose outer product goes to block (p, q)
Hits(x, xIdx, yIdx, p, q) ==
    {tr \in Range(x.shape[1]) \X Range(xIdx.shape[2]) \X Range(yIdx.shape[2]) :
        xIdx.data[<<tr[1], tr[2]>>] = p /\ yIdx.data[<<tr[1], tr[3]>>] = q}

\* sum of outer(x[b, i], y[b, j])[s, t] over the triples that go to block (p, q)
OuterSum(x, y, xIdx, yIdx, ix) ==
    LET H == Hits(x, xIdx, yIdx, ix[1], ix[2])
    IN SumSet([tr \in H |-> x.data[<<tr[1], tr[2], ix[3]>>] * y.data[<<tr[1], tr[3], ix[4]>>]],
              H)

Alpha == In(6).data[<<>>]

\* C2: CpuSparseBlockOuter.perform returns o plus alpha * outer(x[b, i], y[b, j])
\* added at block (xIdx[b, i], yIdx[b, j]) for every (b, i, j), alpha being 1.0
\* when not supplied.
C2_OuterScaledByAlpha ==
    OuterPerformed =>
        \A ix \in Pos(In(1).shape) :
            mem[out].data[ix]
              = In(1).data[ix] + Alpha * OuterSum(In(2), In(3), In(4), In(5), ix)

\* C3: the outer kernel is a scatter-add: a block of the result is o's block
\* plus the sum of the outer products of all the (b, i, j) that map to it, and
\* a block no (b, i, j) maps to is o's block.
C3_ScatterAdd ==
    OuterPerformed =>
        /\ mem[out].shape = In(1).shape
        /\ \A ix \in Pos(In(1).shape) :
              /\ mem[out].data[ix]
                   = In(1).data[ix] + OuterSum(In(2), In(3), In(4), In(5), ix)
              /\ Hits(In(2), In(4), In(5), ix[1], ix[2]) = {}
                   => mem[out].data[ix] = In(1).data[ix]

\* two batch entries and two window positions of one entry meet in block
\* (0, 0); the last outer product written alone is not the result; block
\* (1, 1) is hit by nothing
C3_Witness ==
    /\ OuterPerformed
    /\ LET H == Hits(In(2), In(4), In(5), 0, 0)
       IN /\ \E t1 \in H, t2 \in H : t1[1] # t2[1]
          /\ \E t1 \in H, t2 \in H : t1[1] = t2[1] /\ t1 # t2
          /\ \E ix \in Pos(In(1).shape) :
                /\ ix[1] = 0 /\ ix[2] = 0
                /\ \A tr \in H :
                      mem[out].data[ix]
                        # In(1).data[ix] + In(2).data[<<tr[1], tr[2], ix[3]>>]
                                           * In(3).data[<<tr[1], tr[3], ix[4]>>]
    /\ Hits(In(2), In(4), In(5), 1, 1) = {}

OuterValue(o, x, y, xIdx, yIdx) ==
    [shape |-> o.shape,
     data |-> [ix \in Pos(o.shape) |-> o.data[ix] + OuterSum(x, y, xIdx, yIdx, ix)]]

\* C4: for both CPU kernels copy mode and in-place mode return the same
\* values; in copy mode o's storage is unchanged and the result is another
\* buffer, in in-place mode the result is o's storage; no other buffer changes.
C4_CopyVsInplace ==
    (GemvPerformed \/ OuterPerformed) =>
        LET src == InputBuffer(node.inputs[1])
            before == Entered(pre, node.inputs[1])
        IN /\ node.op.inplace => out = src
           /\ ~node.op.inplace => out # src /\ mem[src] = before[src]
           /\ GemvPerformed =>
                 mem[out] = BlockGemvValue(In(1), In(2), In(3), In(4), In(5))
           /\ OuterPerformed =>
                 mem[out] = OuterValue(In(1), In(2), In(3), In(4), In(5))
           /\ \A n \in DOMAIN mem \ {out} : mem[n] = before[n]

\* an in-place run that changed o's storage
C4_Witness ==
    /\ GemvPerformed \/ OuterPerformed
    /\ node.op.inplace
    /\ node.inputs[1].fn = "var"
    /\ out = node.inputs[1].name
    /\ mem[out] # pre[out]


\* C8: perform of the generic SparseBlockGemv and SparseBlockOuter raises
\* NotImplementedError and writes no output; grad of SparseBlockOuter, also on
\* a CpuSparseBlockOuter instance, raises NotImplementedError and returns nothing.
C8_Unimplemented ==
    /\ (pc = "performed" /\ node.op.cls \in {"SparseBlockGemv", "SparseBlockOuter"}) =>
          /\ raised.exc = "NotImplementedError"
          /\ out = "none"
          /\ mem = pre
    /\ (pc = "graded" /\ node.op.cls \in OuterClasses) =>
          /\ raised.exc = "NotImplementedError"
          /\ graph.value = <<>>

\* grad was asked of a CpuSparseBlockOuter instance, which inherits it
C8_Witness ==
    /\ pc = "graded"
    /\ node.op.cls = "CpuSparseBlockOuter"
    /\ raised.exc = "NotImplementedError"

GemvGraded == pc = "graded" /\ node.op.cls \in GemvClasses

\* the graph with every generic op replaced by its CPU kernel
Optimized(e) == IF e.fn = "apply" THEN [e EXCEPT !.op.cls = CpuClassOf(@)] ELSE e

Bump(v, ix, d) == [v EXCEPT !.data[ix] = @ + d]

\* sum(go * BlockGemv(o, W, h, inputIdx, outputIdx)), the forward pass run by
\* the loops of CpuSparseBlockGemv.perform
Loss(o, W, h, iIdx, oIdx, go) ==
    LET r == GemvKernel(o, W, h, iIdx, oIdx)
    IN SumSet([ix \in DOMAIN r.data |-> go.data[ix] * r.data[ix]], DOMAIN r.data)

\* C7: SparseBlockGemv.grad returns go for o,
\* SparseBlockOuter(zeros_like(W), h, go, inputIdx, outputIdx) for W and
\* SparseBlockGemv(zeros_like(h), W.dimshuffle(1, 0, 3, 2), go, outputIdx, inputIdx)
\* for h; run by the CPU kernels these are, cell by cell, the partial
\* derivatives of sum(go * BlockGemv(o, W, h, inputIdx, outputIdx)).  The sum
\* is affine in every single cell of W and of h (the quotient of step 2 is the
\* quotient of step 1), so the quotient of step 1 is the partial derivative.
C7_Gradient ==
    GemvGraded =>
        LET g == graph.value
            W == node.inputs[2]
            h == node.inputs[3]
            inputIdx == node.inputs[4]
            outputIdx == node.inputs[5]
            Wgrad == Eval(Optimized(g[2]), pre)
            hgrad == Eval(Optimized(g[3]), pre)
            oV == In(1)
            WV == In(2)
            hV == In(3)
            iV == In(4)
            jV == In(5)
            base == Loss(oV, WV, hV, iV, jV, pre.go)
        IN /\ raised = NoError
           /\ Len(g) = 5
           /\ g[1] = EnvVar("go")
           /\ g[2].fn = "apply" /\ g[2].op.cls = "SparseBlockOuter"
           /\ g[2].args = <<ZerosLike(W), h, EnvVar("go"), inputIdx, outputIdx, Constant(1)>>
           /\ g[3].fn = "apply" /\ g[3].op.cls = "SparseBlockGemv"
           /\ g[3].args = <<ZerosLike(h), DimShuffle(W, <<"1", "0", "3", "2">>),
                            EnvVar("go"), outputIdx, inputIdx>>
           /\ Wgrad.shape = WV.shape
           /\ hgrad.shape = hV.shape
           /\ \A ix \in Pos(WV.shape) :
                 LET d1 == Loss(oV, Bump(WV, ix, 1), hV, iV, jV, pre.go) - base
                     d2 == Loss(oV, Bump(WV, ix, 2), hV, iV, jV, pre.go) - base
                 IN Wgrad.data[ix] = d1 /\ d2 = 2 * d1
           /\ \A ix \in Pos(hV.shape) :
                 LET d1 == Loss(oV, WV, Bump(hV, ix, 1), iV, jV, pre.go) - base
                     d2 == Loss(oV, WV, Bump(hV, ix, 2), iV, jV, pre.go) - base
                 IN hgrad.data[ix] = d1 /\ d2 = 2 * d1

\* a gradient at an input whose input window repeats a block, with a nonzero
\* derivative for a cell of W and for a cell of h
C7_Witness ==
    /\ GemvGraded
    /\ In(3).shape[2] >= 2
    /\ In(4).data[<<0, 0>>] = In(4).data[<<0, 1>>]
    /\ \E ix \in Pos(In(2).shape) :
          Loss(In(1), Bump(In(2), ix, 1), In(3), In(4), In(5), pre.go)
            # Loss(In(1), In(2), In(3), In(4), In(5), pre.go)
    /\ \E ix \in Pos(In(3).shape) :
          Loss(In(1), In(2), Bump(In(3), ix, 1), In(4), In(5), pre.go)
            # Loss(In(1), In(2), In(3), In(4), In(5), pre.go)

DotPerformed == GemvPerformed /\ call.fn = "sparse_block_dot"

\* C9: sparse_block_dot(W, h, inputIdx, b, outputIdx)[n, j, :] =
\* b[outputIdx[n, j], :] + sum_i dot(h[n, i, :], W[inputIdx[n, i], outputIdx[n, j]]):
\* the bias row is added once whatever the size of the input window.  Given
\* one example without the batch axis, the result is that of a batch of one.
C9_BiasOnce ==
    DotPerformed =>
        LET batched == call.args[2].ndim = 3
            h == IF batched THEN pre.h ELSE pre.h2
            iIdx == IF batched THEN pre.inputIdx ELSE pre.inputIdx1
            oIdx == IF batched THEN pre.outputIdx ELSE pre.outputIdx1
            At(v, n, k) == IF batched THEN v.data[<<n, k>>] ELSE v.data[<<k>>]
            H(n, i, s) == IF batched THEN h.data[<<n, i, s>>] ELSE h.data[<<i, s>>]
            nB == IF batched THEN h.shape[1] ELSE 1
            iWin == IF batched THEN h.shape[2] ELSE h.shape[1]
            oWin == IF batched THEN oIdx.shape[2] ELSE oIdx.shape[1]
            iSize == pre.W.shape[3]
            sh == <<nB, oWin, pre.b.shape[2]>>
        IN /\ mem[out].shape = sh
           /\ \A ix \in Pos(sh) :
                 mem[out].data[ix]
                   = pre.b.data[<<At(oIdx, ix[1], ix[2]), ix[3]>>]
                     + SumTo([i \in Range(iWin) |->
                                SumTo([s \in Range(iSize) |->
                                         H(ix[1], i, s)
                                           * pre.W.data[<<At(iIdx, ix[1], i),
                                                          At(oIdx, ix[1], ix[2]), s, ix[3]>>]],
                                      iSize)],
                             iWin)

\* an input window of more than one block and a bias that is not zero
C9_Witness ==
    /\ DotPerformed
    /\ call.args[2].ndim = 3
    /\ pre.h.shape[2] >= 2
    /\ \E t \in Range(pre.b.shape[2]) :
          /\ pre.b.data[<<pre.outputIdx.data[<<0, 0>>], t>>] # 0
          /\ mem[out].data[<<0, 0, t>>] # pre.b.data[<<pre.outputIdx.data[<<0, 0>>], t>>]

\* -------------------------------------------------- node construction
ArgNames == <<"o", "W", "h", "inputIdx", "outputIdx">>

\* ranks of section 3 of the specification: o 3, W 4, h 3, index tensors 2
RequiredNdim == <<3, 4, 3, 2, 2>>

GemvMakeNodeCalled == call.fn = "SparseBlockGemv.make_node"

WrongRank(args) == \E k \in 1 .. 5 : args[k].ndim # RequiredNdim[k]

\* C5: SparseBlockGemv.make_node given an argument of the wrong rank raises
\* at construction: no Apply node, no perform for that call, o and every other
\* buffer untouched, for the in-place op too.
C5_RankRejected ==
    /\ (GemvMakeNodeCalled /\ WrongRank(call.args)) =>
          /\ pc = "failed"
          /\ raised.exc = "TypeError"
          /\ node = NoNode
          /\ out = "none"
          /\ mem = pre
    /\ (out # "none" /\ node.op.cls \in GemvClasses) => ~WrongRank(node.inputs)

\* the in-place CPU op refused a W of rank 2
C5_Witness ==
    /\ GemvMakeNodeCalled
    /\ call.op = [cls |-> "CpuSparseBlockGemv", inplace |-> TRUE]
    /\ call.args[2].ndim = 2
    /\ \A k \in {1, 3, 4, 5} : call.args[k].ndim = RequiredNdim[k]
    /\ pc = "failed"

\* C6: make_node of both ops given an index tensor of a non-integral dtype
\* fails and returns no node.
C6_IndexDtypeRejected ==
    (/\ call.fn \in {"SparseBlockGemv.make_node", "SparseBlockOuter.make_node"}
     /\ \E k \in {4, 5} : call.args[k].dtype \notin discrete_dtypes)
        => node = NoNode /\ raised # NoError /\ pc = "failed"

\* what an error message of make_node says: the argument and its rank
Stated(text) ==
    CASE text = "The output o must be a 2D tensor" -> [arg |-> "o", rank |-> 2]
      [] text = "The weight matrix W must be a 4D tensor" -> [arg |-> "W", rank |-> 4]
      [] text = "The input h must be a 3D tensor" -> [arg |-> "h", rank |-> 3]
      [] text = "The input indices inputIdx must be a 2D tensor" ->
            [arg |-> "inputIdx", rank |-> 2]
      [] text = "The output indices outputIdx must be a 2D tensor" ->
            [arg |-> "outputIdx", rank |-> 2]

\* the rank make_node accepts for its k-th argument, the others being right
AcceptedRank(k) ==
    CHOOSE r \in 1 .. MaxNdim :
        SparseBlockGemv_make_node("SparseBlockGemv", FALSE,
                                  [GemvArgs EXCEPT ![k].ndim = r]).raised = NoError

\* C10: a rank error of SparseBlockGemv.make_node names the offending
\* argument and states the rank the check requires of it.
C10_MessageStatesRank ==
    (GemvMakeNodeCalled /\ raised.exc = "TypeError") =>
        LET k == CHOOSE k \in 1 .. 5 :
                    /\ call.args[k].ndim # AcceptedRank(k)
                    /\ \A l \in 1 .. (k - 1) : call.args[l].ndim = AcceptedRank(l)
        IN /\ Stated(raised.text).arg = ArgNames[k]
           /\ Stated(raised.text).rank = AcceptedRank(k)

====
